---- MODULE Spec2Model ----
(***************************************************************************)
(* A model of the sigman data structures (src/sigman/__init__.py):         *)
(*   Data_wave      - uniformly sampled signal with a time offset          *)
(*   Data_points    - time-sorted set of (x, y) points                     *)
(*   Parameter      - (begin, end, value) intervals ordered by begin       *)
(*   Composite_data - labelled registry of the three                       *)
(* Times and values are integers; a sample period that is not a whole      *)
(* number is kept exact as the fraction complete_length / len(data).       *)
(* Python's None is the empty sequence <<>>, a present value v is <<v>>.   *)
(***************************************************************************)
EXTENDS Integers, Sequences, FiniteSets, TLC

VARIABLES pts, pc, rs, wave, param, reg, last

vars == <<pts, pc, rs, wave, param, reg, last>>

(* ------------------------------ bounds --------------------------------- *)
MaxT == 2
MaxV == 1
MaxLen == 3

Times == 0..MaxT
Vals == 0..MaxV

None == <<>>

(* ------------------------------ helpers -------------------------------- *)
Min2(a, b) == IF a <= b THEN a ELSE b
Max2(a, b) == IF a >= b THEN a ELSE b
Abs(a) == IF a < 0 THEN -a ELSE a

\* np.insert(s, i, e) with a 0-based index i
NpInsert(s, i, e) == SubSeq(s, 1, i) \o <<e>> \o SubSeq(s, i + 1, Len(s))

\* np.delete(s, range(b, e)) / np.delete(s, i), 0-based, e exclusive
NpDeleteRange(s, b, e) ==
    IF b >= e THEN s ELSE SubSeq(s, 1, b) \o SubSeq(s, e + 1, Len(s))
NpDelete(s, i) == NpDeleteRange(s, i, i + 1)

\* s[b:e] of Python, 0-based, e exclusive, b and e already within 0..len
PySlice(s, b, e) == IF b >= e THEN <<>> ELSE SubSeq(s, b + 1, e)

\* np.searchsorted(a, v), side='left': the bisection numpy runs
RECURSIVE Bisect(_, _, _, _)
Bisect(a, v, lo, hi) ==
    IF lo >= hi THEN lo
    ELSE LET mid == (lo + hi) \div 2
         IN  IF a[mid + 1] < v THEN Bisect(a, v, mid + 1, hi)
                               ELSE Bisect(a, v, lo, mid)
SearchSorted(a, v) == Bisect(a, v, 0, Len(a))

\* np.argmin(d): index (0-based) of the first occurrence of the minimum
ArgMinLast(d) ==
    CHOOSE i \in 0..(Len(d) - 1) :
        /\ \A j \in 0..(Len(d) - 1) : d[i + 1] <= d[j + 1]
        /\ \A j \in (i + 1)..(Len(d) - 1) : d[j + 1] > d[i + 1]
ArgMin(d) ==
    CHOOSE i \in 0..(Len(d) - 1) :
        /\ \A j \in 0..(Len(d) - 1) : d[i + 1] <= d[j + 1]
        /\ \A j \in 0..(i - 1) : d[j + 1] > d[i + 1]

(* ============================== Data_wave ============================== *)
\* A Data_wave object is a record [data, complete_length, offset];
\* sample_length is the fraction complete_length / len(data), line 43.

RelTolInv == 10000
DefaultRelTolInv == 1000000000

WLen(w) == Len(w.data)

\* math.isclose(an/ad, bn/bd, rel_tol = 1/tolInv) for ad, bd > 0:
\* |a - b| <= rel_tol * max(|a|, |b|)
IsClose(an, ad, bn, bd, tolInv) ==
    Abs(an * bd - bn * ad) <= Max2(Abs(an * bd), Abs(bn * ad)) \div tolInv

\* round(num/den) of Python 3 for den > 0: halves go to the even neighbour
RoundHalfEven(num, den) ==
    LET q == num \div den
        r == num - q * den
    IN  IF 2 * r < den THEN q
        ELSE IF 2 * r > den THEN q + 1
        ELSE IF q % 2 = 0 THEN q ELSE q + 1

\* int(num/den) for den > 0: truncation towards zero
Trunc(num, den) == IF num >= 0 THEN num \div den ELSE -((-num) \div den)

\* sample_at: <<index>>, or None for the ValueError
SampleAt(w, time) ==
    LET i0 == RoundHalfEven((time - w.offset) * WLen(w), w.complete_length)
        index == IF i0 = WLen(w) THEN i0 - 1 ELSE i0
    IN  IF index < 0 \/ index > WLen(w) THEN None ELSE <<index>>

\* value_at: the interpolated approx_value is computed and dropped; the
\* value returned is the sample nearest to time (line 89)
ValueAt(w, time) ==
    LET num == (time - w.offset) * WLen(w)
        interp_index == Trunc(num, w.complete_length)
    IN  IF interp_index < 0 \/ interp_index >= WLen(w) - 1
        THEN [kind |-> "ValueError"]
        ELSE LET s == SampleAt(w, time)
             IN  IF s = None THEN [kind |-> "ValueError"]
                 ELSE [kind |-> "ok", val |-> w.data[s[1] + 1]]

\* np.interp(x, xp, fp) for the grids of data_slice, every number a multiple
\* of 1/den: x = begin + k * value_every, xp[i] = begin + i * sample_length
\* (i = 0..m-1), fp = raw; returns the numerator of the value over cl.
\* np.interp raises ValueError when xp is empty.
InterpNum(k, value_every, raw, n, cl) ==
    LET m == Len(raw)
        xn == k * value_every * n
        i == xn \div cl
    IN  IF i >= m - 1 THEN raw[m] * cl
        ELSE raw[i + 1] * cl + (raw[i + 2] - raw[i + 1]) * (xn - i * cl)

\* data_slice with value_count = None and a whole value_every >= 0
WaveRaw(w, begin_i, end_i) == PySlice(w.data, begin_i, end_i)

WaveDataSlice(w, begin_time, end_time, value_every) ==
    LET b == SampleAt(w, begin_time)
        e == SampleAt(w, end_time)
    IN  IF b = None \/ e = None THEN [kind |-> "ValueError"]
        ELSE IF \/ value_every = 0
                \/ IsClose(w.complete_length, WLen(w), value_every, 1, DefaultRelTolInv)
        THEN [kind |-> "raw", val |-> WaveRaw(w, b[1], e[1])]
        ELSE LET raw == WaveRaw(w, b[1], e[1])
                 span == end_time - begin_time
                 count == IF span <= 0 THEN 0
                          ELSE (span + value_every - 1) \div value_every
             IN  IF raw = <<>> THEN [kind |-> "ValueError"]
                 ELSE [kind |-> "interp", den |-> w.complete_length,
                       val |-> [k \in 1..count |->
                                  InterpNum(k - 1, value_every, raw, WLen(w),
                                            w.complete_length)]]

\* replace_slice: [w |-> the wave afterwards, kind]; the copy loop stops with
\* an IndexError at the first j outside the source, the samples before it
\* already overwritten
WaveReplaceSlice(w, begin_time, end_time, src) ==
    IF ~IsClose(w.complete_length, WLen(w), src.complete_length, WLen(src), RelTolInv)
    THEN [w |-> w, kind |-> "ValueError"]
    ELSE IF end_time - begin_time > src.complete_length
    THEN [w |-> w, kind |-> "ValueError"]
    ELSE LET b == SampleAt(w, begin_time)
             e == SampleAt(w, end_time)
         IN  IF b = None \/ e = None THEN [w |-> w, kind |-> "ValueError"]
             ELSE LET count == Max2(0, e[1] - b[1])
                      copied == Min2(count, WLen(src))
                  IN  [w |-> [w EXCEPT !.data =
                                [i \in 1..WLen(w) |->
                                   IF i - 1 >= b[1] /\ i - 1 < b[1] + copied
                                   THEN src.data[i - b[1]] ELSE w.data[i]]],
                       kind |-> IF count > WLen(src) THEN "IndexError" ELSE "ok"]

(* ============================ Data_points ============================== *)
\* A Data_points object is a record [data_x, data_y].

PairLess(a, b) == a[1] < b[1] \/ (a[1] = b[1] /\ a[2] < b[2])

\* sorted(zip(data_x, data_y)): tuples in lexicographic order
RECURSIVE SortedPairs(_)
SortedPairs(s) ==
    IF Len(s) <= 1 THEN s
    ELSE LET rest == SortedPairs(Tail(s))
             k == Cardinality({i \in 1..Len(rest) : PairLess(rest[i], Head(s))})
         IN  NpInsert(rest, k, Head(s))

Zip(xs, ys) == [i \in 1..Min2(Len(xs), Len(ys)) |-> <<xs[i], ys[i]>>]

\* Data_points.__init__ (non-empty inputs; empty ones raise in zip(*...))
NewPoints(xs, ys) ==
    LET s == SortedPairs(Zip(xs, ys))
    IN  [data_x |-> [i \in 1..Len(s) |-> s[i][1]],
         data_y |-> [i \in 1..Len(s) |-> s[i][2]]]

PLen(p) == Len(p.data_x)

\* slice_range: <<begin_i, end_i>> standing for range(begin_i, end_i), or None
SliceRangeFromBegin(p, begin_time, end_time) ==
    LET begin_i == SearchSorted(p.data_x, begin_time)
        end_i == SearchSorted(p.data_x, end_time)
    IN  IF begin_i # end_i THEN <<begin_i, PLen(p)>> ELSE None
SliceRange(p, begin_time, end_time) ==
    LET begin_i == SearchSorted(p.data_x, begin_time)
        end_i == SearchSorted(p.data_x, end_time)
    IN  IF begin_i # end_i THEN <<begin_i, end_i>> ELSE None

\* data_slice: [kind |-> "none"], [kind |-> "IndexError"] (indexing an empty
\* range) or [kind |-> "ok", x, y]
DataSlice(p, begin_time, end_time, left_offset) ==
    LET r == SliceRange(p, begin_time, end_time)
    IN  IF r = None THEN [kind |-> "none"]
        ELSE IF r[1] > r[2] THEN [kind |-> "IndexError"]
        ELSE LET b0 == r[1] - left_offset
                 begin_i == IF b0 < 0 THEN 0 ELSE b0
                 end_i == (r[2] - 1) + 1
             IN  [kind |-> "ok",
                  x |-> PySlice(p.data_x, begin_i, end_i),
                  y |-> PySlice(p.data_y, begin_i, end_i)]

\* delete_slice: [p |-> the object afterwards, kind |-> "ok"/error, ret]
\* np.delete(a, None) raises before anything is assigned; an empty range
\* (begin_i > end_i) deletes nothing and temp_range[0] raises.
DeleteSlice(p, begin_time, end_time) ==
    LET r == SliceRange(p, begin_time, end_time)
    IN  IF r = None THEN [p |-> p, kind |-> "IndexError", ret |-> None]
        ELSE IF r[1] > r[2] THEN [p |-> p, kind |-> "IndexError", ret |-> None]
        ELSE [p |-> [data_x |-> NpDeleteRange(p.data_x, r[1], r[2]),
                     data_y |-> NpDeleteRange(p.data_y, r[1], r[2])],
              kind |-> "ok", ret |-> <<r[1]>>]

\* the index add_point inserts at
AddIndexFront(p, x) == 0
AddIndex(p, x) == SearchSorted(p.data_x, x)

\* add_point
AddPoint(p, x, y) ==
    LET i == AddIndex(p, x)
    IN  [data_x |-> NpInsert(p.data_x, i, x), data_y |-> NpInsert(p.data_y, i, y)]

\* add_points: add_point for each point of the other set, in its order
RECURSIVE AddPointsFrom(_, _, _, _)
AddPointsFrom(p, src, begin_time, k) ==
    IF k > PLen(src) THEN p
    ELSE AddPointsFrom(AddPoint(p, src.data_x[k] + begin_time, src.data_y[k]),
                       src, begin_time, k + 1)
AddPoints(p, src, begin_time) == AddPointsFrom(p, src, begin_time, 1)

\* the distances delete_point takes the argmin of; y = None is the 1-D case
Distances(p, x, y) ==
    IF y # None
    THEN [i \in 1..PLen(p) |->
            (p.data_x[i] - x) * (p.data_x[i] - x)
            + (p.data_y[i] - y[1]) * (p.data_y[i] - y[1])]
    ELSE [i \in 1..PLen(p) |-> Abs(p.data_x[i] - x)]

\* delete_point on a non-empty set (argmin of an empty array raises)
DeletePoint(p, x, y) ==
    LET closest_id == ArgMin(Distances(p, x, y))
    IN  [data_x |-> NpDelete(p.data_x, closest_id),
         data_y |-> NpDelete(p.data_y, closest_id)]

\* move_in_time
MoveInTime(p, time) ==
    [data_x |-> [i \in 1..PLen(p) |-> p.data_x[i] + time], data_y |-> p.data_y]


\* align_to_line: the loop from point i on; value_at raising ends the call
\* with the values of the points before i already overwritten
RECURSIVE AlignFrom(_, _, _)
AlignFrom(p, w, i) ==
    IF i > PLen(p) THEN [p |-> p, kind |-> "ok"]
    ELSE LET v == ValueAt(w, p.data_x[i])
         IN  IF v.kind # "ok" THEN [p |-> p, kind |-> v.kind]
             ELSE AlignFrom([p EXCEPT !.data_y[i] = v.val], w, i + 1)
AlignToLine(p, data_wave) == AlignFrom(p, data_wave, 1)

(* ---------------------- Data_points: state machine --------------------- *)
\* pc: "idle" between calls, "loop" inside the while of replace_slice,
\* "done" when a call has returned or raised and `last` holds its outcome.

\* the Data_points objects a caller passes in (built by the constructor)
Sources ==
    UNION {{NewPoints(xs, [i \in 1..n |-> MaxV]) : xs \in [1..n -> Times]} : n \in {1, 2}}

InitPoints ==
    UNION {{NewPoints(xs, ys) : xs \in [1..n -> Times], ys \in [1..n -> Vals]} : n \in 1..MaxLen}

Bounds == 0..(MaxT + 1)

NoFrame == [begin_time |-> 0, end_time |-> 0, src |-> None, begin_i |-> 0, j |-> 0]
NoCall == [op |-> "none"]

\* the objects of the other classes while the point set is exercised
IdleWave == [data |-> <<0>>, complete_length |-> 1, offset |-> 0]
IdleParam == [begin_times |-> <<>>, end_times |-> <<>>, values |-> <<>>]
IdleReg == [data_waves |-> <<>>, data_points |-> <<>>, parameters |-> <<>>]

PInit ==
    /\ pts \in InitPoints
    /\ pc = "idle"
    /\ rs = NoFrame
    /\ wave = IdleWave
    /\ param = IdleParam
    /\ reg = IdleReg
    /\ last = NoCall

POthers == UNCHANGED <<wave, param, reg>>

PAddPoint ==
    /\ pc = "idle"
    /\ PLen(pts) < MaxLen
    /\ \E x \in Times, y \in Vals :
         /\ pts' = AddPoint(pts, x, y)
         /\ last' = [op |-> "add_point", x |-> x, y |-> y, before |-> pts]
    /\ pc' = "done"
    /\ UNCHANGED rs
    /\ POthers

PAddPoints ==
    /\ pc = "idle"
    /\ \E src \in Sources, begin_time \in 0..1 :
         /\ PLen(pts) + PLen(src) <= MaxLen
         /\ \A k \in 1..PLen(src) : src.data_x[k] + begin_time \in Times
         /\ pts' = AddPoints(pts, src, begin_time)
         /\ last' = [op |-> "add_points", src |-> src, begin_time |-> begin_time,
                     before |-> pts]
    /\ pc' = "done"
    /\ UNCHANGED rs
    /\ POthers

PDeletePoint ==
    /\ pc = "idle"
    /\ \E x \in Times, y \in {None} \cup {<<v>> : v \in Vals} :
         IF PLen(pts) = 0
         THEN /\ pts' = pts
              /\ last' = [op |-> "delete_point", x |-> x, y |-> y,
                          kind |-> "ValueError", before |-> pts]
         ELSE /\ pts' = DeletePoint(pts, x, y)
              /\ last' = [op |-> "delete_point", x |-> x, y |-> y,
                          kind |-> "ok", before |-> pts]
    /\ pc' = "done"
    /\ UNCHANGED rs
    /\ POthers

PDeleteSlice ==
    /\ pc = "idle"
    /\ \E begin_time \in Bounds, end_time \in Bounds :
         LET out == DeleteSlice(pts, begin_time, end_time)
         IN  /\ pts' = out.p
             /\ last' = [op |-> "delete_slice", begin_time |-> begin_time,
                         end_time |-> end_time, kind |-> out.kind,
                         ret |-> out.ret, before |-> pts]
    /\ pc' = "done"
    /\ UNCHANGED rs
    /\ POthers

PMoveInTime ==
    /\ pc = "idle"
    /\ \E time \in {-1, 1} :
         /\ \A i \in 1..PLen(pts) : pts.data_x[i] + time \in Times
         /\ pts' = MoveInTime(pts, time)
         /\ last' = [op |-> "move_in_time", time |-> time, before |-> pts]
    /\ pc' = "done"
    /\ UNCHANGED rs
    /\ POthers

PDataSlice ==
    /\ pc = "idle"
    /\ \E begin_time \in Bounds, end_time \in Bounds, left_offset \in 0..1 :
         last' = [op |-> "data_slice", begin_time |-> begin_time,
                  end_time |-> end_time, left_offset |-> left_offset,
                  ret |-> DataSlice(pts, begin_time, end_time, left_offset)]
    /\ pc' = "done"
    /\ UNCHANGED <<pts, rs>>
    /\ POthers

\* the waves passed to align_to_line: they start at time 0 and their
\* samples differ from every value a point starts with
AlignWaves ==
    UNION {{[data |-> [j \in 1..m |-> MaxV + j], complete_length |-> k * m, offset |-> 0] :
               k \in {1, 2}} : m \in 2..MaxLen}

PAlignToLine ==
    /\ pc = "idle"
    /\ \E data_wave \in AlignWaves :
         LET out == AlignToLine(pts, data_wave)
         IN  /\ pts' = out.p
             /\ last' = [op |-> "align_to_line", data_wave |-> data_wave,
                         kind |-> out.kind, before |-> pts]
    /\ pc' = "done"
    /\ UNCHANGED rs
    /\ POthers

\* replace_slice, line 248: delete_slice; an error leaves the call
PReplaceCall ==
    /\ pc = "idle"
    /\ \E begin_time \in Bounds, end_time \in Bounds, src \in Sources :
         /\ begin_time <= end_time
         /\ LET out == DeleteSlice(pts, begin_time, end_time)
                call == [op |-> "replace_slice", begin_time |-> begin_time,
                         end_time |-> end_time, src |-> src,
                         kind |-> IF out.kind = "ok" THEN "running" ELSE out.kind,
                         before |-> pts]
            IN  /\ pts' = out.p
                /\ last' = call
                /\ IF out.kind # "ok"
                   THEN /\ pc' = "done"
                        /\ UNCHANGED rs
                   ELSE /\ pc' = "loop"
                        /\ rs' = [begin_time |-> begin_time, end_time |-> end_time,
                                  src |-> src, begin_i |-> out.ret[1], j |-> 0]
    /\ POthers

\* the while condition of replace_slice, lines 255-256
ReplaceGuard(f) ==
    /\ f.j < PLen(f.src)
    /\ f.src.data_x[f.j + 1] < f.end_time - f.begin_time

\* one evaluation of the while loop, lines 255-258: the body calls np.insert
\* twice and drops both results, and never advances j, so an iteration
\* changes nothing; when the condition is false the call returns.
PReplaceLoop ==
    /\ pc = "loop"
    /\ IF ReplaceGuard(rs)
       THEN UNCHANGED <<pts, pc, rs, last>>
       ELSE /\ pc' = "done"
            /\ rs' = NoFrame
            /\ last' = [last EXCEPT !.kind = "ok"]
            /\ UNCHANGED pts
    /\ POthers

\* the caller takes the outcome of the call and is free to call again
PReturn ==
    /\ pc = "done"
    /\ pc' = "idle"
    /\ last' = NoCall
    /\ UNCHANGED <<pts, rs>>
    /\ POthers

PNext ==
    \/ PAddPoint
    \/ PAddPoints
    \/ PDeletePoint
    \/ PDeleteSlice
    \/ PMoveInTime
    \/ PDataSlice
    \/ PAlignToLine
    \/ PReplaceCall
    \/ PReplaceLoop
    \/ PReturn

SpecPoints == PInit /\ [][PNext]_vars

\* a call that is running keeps running: the interpreter executes the loop
FairSpecPoints == SpecPoints /\ WF_vars(PReplaceLoop)

(* ------------------------ Data_points: claims -------------------------- *)

\* C1: in every reachable state of a point set built from arbitrary arrays
\* and changed by add_point, add_points, delete_point, delete_slice and
\* move_in_time, data_x is sorted ascending (ties allowed) and data_x and
\* data_y have the same length.
C1_TimesSorted ==
    /\ Len(pts.data_x) = Len(pts.data_y)
    /\ \A i \in 1..(PLen(pts) - 1) : pts.data_x[i] <= pts.data_x[i + 1]

\* a point was inserted strictly between two existing points
C1_Witness ==
    /\ pc = "done"
    /\ last.op = "add_point"
    /\ PLen(last.before) >= 2
    /\ last.before.data_x[1] < last.x
    /\ last.x < last.before.data_x[PLen(last.before)]

\* the distance the claim measures from point i of p to the query (x, y)
C10_Dist(p, i, x, y) ==
    IF y = None
    THEN Abs(p.data_x[i] - x)
    ELSE (p.data_x[i] - x) * (p.data_x[i] - x) + (p.data_y[i] - y[1]) * (p.data_y[i] - y[1])

\* C10: delete_point on a non-empty set removes exactly one point, the one
\* of lowest index among those at minimal distance (squared 2-D distance
\* when y is given, |dx| otherwise); the other points stay, in order, with
\* x and y still paired.
C10_RemovesFirstNearest ==
    (pc = "done" /\ last.op = "delete_point" /\ last.kind = "ok") =>
        LET b == last.before
            n == PLen(b)
        IN  \E i \in 1..n :
              /\ \A j \in 1..n : C10_Dist(b, i, last.x, last.y) <= C10_Dist(b, j, last.x, last.y)
              /\ \A j \in 1..(i - 1) : C10_Dist(b, j, last.x, last.y) > C10_Dist(b, i, last.x, last.y)
              /\ pts.data_x = [k \in 1..(n - 1) |-> IF k < i THEN b.data_x[k] ELSE b.data_x[k + 1]]
              /\ pts.data_y = [k \in 1..(n - 1) |-> IF k < i THEN b.data_y[k] ELSE b.data_y[k + 1]]

\* a 2-D query with two different points at the same minimal distance,
\* as (9,5) and (11,5) queried at (10,5)
C10_Witness ==
    /\ pc = "done"
    /\ last.op = "delete_point"
    /\ last.kind = "ok"
    /\ last.y # None
    /\ LET b == last.before
       IN  \E i \in 1..PLen(b), j \in 1..PLen(b) :
             /\ i < j
             /\ b.data_x[i] < b.data_x[j]
             /\ \A k \in 1..PLen(b) : C10_Dist(b, i, last.x, last.y) <= C10_Dist(b, k, last.x, last.y)
             /\ C10_Dist(b, j, last.x, last.y) = C10_Dist(b, i, last.x, last.y)

\* the source points the claim expects in the window, rebased by begin_time
C3_Expected(src, begin_time, end_time) ==
    LET InSpan(pr) == pr[1] < end_time - begin_time
        kept == SelectSeq(Zip(src.data_x, src.data_y), InSpan)
    IN  [x |-> [k \in 1..Len(kept) |-> kept[k][1] + begin_time],
         y |-> [k \in 1..Len(kept) |-> kept[k][2]]]

\* data_slice answers None for a window without points
C3_SliceIs(ret, want) ==
    IF ret.kind = "ok" THEN ret.x = want.x /\ ret.y = want.y
    ELSE ret.kind = "none" /\ want.x = <<>>

\* C3: a replace_slice(begin, end, source) made on a set with a point in
\* [begin, end) returns, and data_slice(begin, end) then yields exactly the
\* source points with x < end - begin, rebased by begin, in source order.
C3_ReplaceThenSlice ==
    (pc = "loop") ~>
        (/\ pc = "done"
         /\ last.op = "replace_slice"
         /\ C3_SliceIs(DataSlice(pts, last.begin_time, last.end_time, 0),
                       C3_Expected(last.src, last.begin_time, last.end_time)))

\* C11: delete_slice(begin, end) with at least one point in begin <= x < end
\* removes exactly those points from data_x and data_y, keeps the others in
\* order and returns the index the first removed point had; with no such
\* point it raises and leaves data_x and data_y as they were.
C11_DeleteRange ==
    (pc = "done" /\ last.op = "delete_slice") =>
        LET b == last.before
            hit == {i \in 1..PLen(b) :
                      last.begin_time <= b.data_x[i] /\ b.data_x[i] < last.end_time}
            Kept(pr) == ~(last.begin_time <= pr[1] /\ pr[1] < last.end_time)
            rest == SelectSeq(Zip(b.data_x, b.data_y), Kept)
        IN  IF hit # {}
            THEN /\ last.kind = "ok"
                 /\ Zip(pts.data_x, pts.data_y) = rest
                 /\ Len(pts.data_x) = Len(rest) /\ Len(pts.data_y) = Len(rest)
                 /\ last.ret = <<(CHOOSE i \in hit : \A j \in hit : i <= j) - 1>>
            ELSE /\ last.kind # "ok"
                 /\ pts = b

\* a point between two others was removed: index 1 is returned and the
\* points before and after it stay
C11_Witness ==
    /\ pc = "done"
    /\ last.op = "delete_slice"
    /\ last.kind = "ok"
    /\ last.ret = <<1>>
    /\ PLen(last.before) = 3
    /\ PLen(pts) = 2

\* C12: every replace_slice call that has begun its loop returns or raises.
C12_ReplaceTerminates == (pc = "loop") ~> (pc = "done")

\* C13: align_to_line has no partial failure: if a point's time is outside
\* the wave's domain (before offset, or at or after the last sample) the
\* call raises and every data_y is as before; otherwise every data_y is
\* value_at of the wave at the point's time and data_x is unchanged.
C13_AlignAllOrNothing ==
    (pc = "done" /\ last.op = "align_to_line") =>
        LET b == last.before
            w == last.data_wave
            Outside(t) ==
                \/ t < w.offset
                \/ (t - w.offset) * WLen(w) >= (WLen(w) - 1) * w.complete_length
        IN  IF \E i \in 1..PLen(b) : Outside(b.data_x[i])
            THEN last.kind # "ok" /\ pts = b
            ELSE /\ last.kind = "ok"
                 /\ pts.data_x = b.data_x
                 /\ Len(pts.data_y) = Len(b.data_y)
                 /\ \A i \in 1..PLen(b) :
                      /\ ValueAt(w, b.data_x[i]).kind = "ok"
                      /\ pts.data_y[i] = ValueAt(w, b.data_x[i]).val

(* ----------------------- Data_wave: state machine ---------------------- *)
MaxWLen == 3

\* waves of 2..MaxWLen samples with a sample period of 1 or 2 time units
InitWaves ==
    UNION {{[data |-> d, complete_length |-> k * n, offset |-> o] :
               d \in [1..n -> Vals], k \in {1, 2}, o \in {0, 1}} : n \in 2..MaxWLen}

\* the waves passed to replace_slice; their samples differ from every
\* sample of the initial waves and from each other
SrcWaves ==
    UNION {{[data |-> [j \in 1..m |-> MaxV + j], complete_length |-> k * m, offset |-> 0] :
               k \in {1, 2}} : m \in 1..MaxWLen}

WTimes == (-1)..(2 * MaxWLen + 1)

WInit ==
    /\ wave \in InitWaves
    /\ pc = "idle"
    /\ rs = NoFrame
    /\ pts = [data_x |-> <<0>>, data_y |-> <<0>>]
    /\ param = IdleParam
    /\ reg = IdleReg
    /\ last = NoCall

WOthers == UNCHANGED <<pts, rs, param, reg>>

WValueAt ==
    /\ pc = "idle"
    /\ \E time \in WTimes :
         last' = [op |-> "value_at", time |-> time, ret |-> ValueAt(wave, time)]
    /\ pc' = "done"
    /\ UNCHANGED wave
    /\ WOthers

WSampleAt ==
    /\ pc = "idle"
    /\ \E time \in WTimes :
         last' = [op |-> "sample_at", time |-> time, ret |-> SampleAt(wave, time)]
    /\ pc' = "done"
    /\ UNCHANGED wave
    /\ WOthers

WDataSlice ==
    /\ pc = "idle"
    /\ \E begin_time \in WTimes, end_time \in WTimes, value_every \in 0..3 :
         last' = [op |-> "data_slice", begin_time |-> begin_time,
                  end_time |-> end_time, value_every |-> value_every,
                  ret |-> WaveDataSlice(wave, begin_time, end_time, value_every)]
    /\ pc' = "done"
    /\ UNCHANGED wave
    /\ WOthers

WReplaceSlice ==
    /\ pc = "idle"
    /\ \E begin_time \in WTimes, end_time \in WTimes, src \in SrcWaves :
         LET out == WaveReplaceSlice(wave, begin_time, end_time, src)
         IN  /\ wave' = out.w
             /\ last' = [op |-> "replace_slice", begin_time |-> begin_time,
                         end_time |-> end_time, src |-> src, kind |-> out.kind,
                         before |-> wave]
    /\ pc' = "done"
    /\ WOthers

WReturn ==
    /\ pc = "done"
    /\ pc' = "idle"
    /\ last' = NoCall
    /\ UNCHANGED wave
    /\ WOthers

WNext ==
    \/ WValueAt
    \/ WSampleAt
    \/ WDataSlice
    \/ WReplaceSlice
    \/ WReturn

SpecWave == WInit /\ [][WNext]_vars

(* -------------------------- Data_wave: claims -------------------------- *)

\* C4: replace_slice has no partial failure: when it raises, the samples are
\* those before the call; when it returns, every index from
\* sample_at(begin) up to but excluding sample_at(end) holds the source
\* sample of the same rank.
C4_NoPartialFailure ==
    (pc = "done" /\ last.op = "replace_slice") =>
        IF last.kind # "ok"
        THEN wave.data = last.before.data
        ELSE LET b == SampleAt(last.before, last.begin_time)[1]
                 e == SampleAt(last.before, last.end_time)[1]
             IN  \A i \in b..(e - 1) : wave.data[i + 1] = last.src.data[i - b + 1]

\* C8: for begin <= end on sample boundaries within [offset, offset +
\* complete_length], data_slice at the native rate (value_every = 0 or
\* = sample_length) returns the stored samples whose time offset + i *
\* sample_length lies in [begin, end), in index order.
C8_NativeSliceIsRaw ==
    (/\ pc = "done"
     /\ last.op = "data_slice"
     /\ last.value_every = 0 \/ last.value_every * WLen(wave) = wave.complete_length
     /\ last.begin_time <= last.end_time
     /\ wave.offset <= last.begin_time
     /\ last.end_time <= wave.offset + wave.complete_length
     /\ ((last.begin_time - wave.offset) * WLen(wave)) % wave.complete_length = 0
     /\ ((last.end_time - wave.offset) * WLen(wave)) % wave.complete_length = 0) =>
        LET ib == ((last.begin_time - wave.offset) * WLen(wave)) \div wave.complete_length
            ie == ((last.end_time - wave.offset) * WLen(wave)) \div wave.complete_length
        IN  /\ last.ret.kind = "raw"
            /\ last.ret.val = [k \in 1..(ie - ib) |-> wave.data[ib + k]]

\* C9: for offset <= time < offset + (len - 1) * sample_length, value_at
\* returns v[i] + (v[i+1] - v[i]) * ((time - offset) / sample_length - i)
\* with i = floor((time - offset) / sample_length); both sides are
\* multiplied by complete_length to stay in whole numbers.
C9_LinearInterpolation ==
    (/\ pc = "done"
     /\ last.op = "value_at"
     /\ wave.offset <= last.time
     /\ (last.time - wave.offset) * WLen(wave) < (WLen(wave) - 1) * wave.complete_length) =>
        LET num == (last.time - wave.offset) * WLen(wave)
            cl == wave.complete_length
            i == num \div cl
        IN  /\ last.ret.kind = "ok"
            /\ last.ret.val * cl =
                 wave.data[i + 1] * cl + (wave.data[i + 2] - wave.data[i + 1]) * (num - i * cl)

\* C15: value_at(time) raises for every time < offset and for every
\* time >= offset + (len - 1) * sample_length; it never returns a value
\* for a time outside that domain.
C15_NoValueOutsideDomain ==
    (/\ pc = "done"
     /\ last.op = "value_at"
     /\ \/ last.time < wave.offset
        \/ (last.time - wave.offset) * WLen(wave) >= (WLen(wave) - 1) * wave.complete_length) =>
        last.ret.kind # "ok"

(* ============================== Parameter ============================== *)
\* A Parameter object is a record [begin_times, end_times, values].

QLen(q) == Len(q.begin_times)

\* add_value
AddValue(q, begin_time, end_time, value) ==
    IF QLen(q) = 0
    THEN [begin_times |-> Append(q.begin_times, begin_time),
          end_times |-> Append(q.end_times, end_time),
          values |-> Append(q.values, value)]
    ELSE LET i == SearchSorted(q.begin_times, begin_time)
         IN  [begin_times |-> NpInsert(q.begin_times, i, begin_time),
              end_times |-> NpInsert(q.end_times, i, end_time),
              values |-> NpInsert(q.values, i, value)]

\* contained_in: the loop from index k on (0-based indices collected in acc);
\* it breaks at the first interval that does not contain time and begins
\* before it (line 356)
RECURSIVE ContainedFrom(_, _, _, _)
ContainedFrom(q, time, k, acc) ==
    IF k > QLen(q) THEN acc
    ELSE IF time >= q.begin_times[k] /\ time <= q.end_times[k]
    THEN ContainedFrom(q, time, k + 1, Append(acc, k - 1))
    ELSE IF time > q.begin_times[k] THEN acc
    ELSE ContainedFrom(q, time, k + 1, acc)
ContainedIn(q, time) == ContainedFrom(q, time, 1, <<>>)

RECURSIVE SumAt(_, _)
SumAt(vals, idx) ==
    IF idx = <<>> THEN 0 ELSE vals[Head(idx) + 1] + SumAt(vals, Tail(idx))

\* value_at: None, or <<[num, den]>> for the average num/den
ParamValueAt(q, time) ==
    LET parameter_indices == ContainedIn(q, time)
    IN  IF Len(parameter_indices) = 0 THEN None
        ELSE <<[num |-> SumAt(q.values, parameter_indices),
                den |-> Len(parameter_indices)]>>

(* ----------------------- Parameter: state machine ---------------------- *)
QInit ==
    /\ param = IdleParam
    /\ pc = "idle"
    /\ rs = NoFrame
    /\ pts = [data_x |-> <<0>>, data_y |-> <<0>>]
    /\ wave = IdleWave
    /\ reg = IdleReg
    /\ last = NoCall

QOthers == UNCHANGED <<pts, rs, wave, reg>>

QAddValue ==
    /\ pc = "idle"
    /\ QLen(param) < MaxLen
    /\ \E begin_time \in Times, end_time \in Times, value \in Vals :
         /\ begin_time <= end_time
         /\ param' = AddValue(param, begin_time, end_time, value)
         /\ last' = [op |-> "add_value", begin_time |-> begin_time,
                     end_time |-> end_time, value |-> value]
    /\ pc' = "done"
    /\ QOthers

QContainedIn ==
    /\ pc = "idle"
    /\ \E time \in Times :
         last' = [op |-> "contained_in", time |-> time, ret |-> ContainedIn(param, time)]
    /\ pc' = "done"
    /\ UNCHANGED param
    /\ QOthers

QValueAt ==
    /\ pc = "idle"
    /\ \E time \in Times :
         last' = [op |-> "value_at", time |-> time, ret |-> ParamValueAt(param, time)]
    /\ pc' = "done"
    /\ UNCHANGED param
    /\ QOthers

QReturn ==
    /\ pc = "done"
    /\ pc' = "idle"
    /\ last' = NoCall
    /\ UNCHANGED param
    /\ QOthers

QNext ==
    \/ QAddValue
    \/ QContainedIn
    \/ QValueAt
    \/ QReturn

SpecParam == QInit /\ [][QNext]_vars

(* -------------------------- Parameter: claims -------------------------- *)

\* the stored intervals (1-based) with begin <= time <= end
C2_Covering(q, time) ==
    {k \in 1..QLen(q) : q.begin_times[k] <= time /\ time <= q.end_times[k]}

RECURSIVE C2_SumOver(_, _)
C2_SumOver(vals, ks) ==
    IF ks = {} THEN 0
    ELSE LET k == CHOOSE k \in ks : TRUE IN vals[k] + C2_SumOver(vals, ks \ {k})

\* C2: value_at(t) is the arithmetic mean of the values of all stored
\* intervals with begin <= t <= end, and None exactly when there is none.
C2_MeanOfAllCovering ==
    (pc = "done" /\ last.op = "value_at") =>
        LET ks == C2_Covering(param, last.time)
        IN  IF ks = {} THEN last.ret = None
            ELSE /\ last.ret # None
                 /\ last.ret[1].num * Cardinality(ks)
                      = C2_SumOver(param.values, ks) * last.ret[1].den

\* C14: when each stored interval ends before the next one begins,
\* contained_in(t) returns exactly the indices, in ascending order, of all
\* stored intervals with begin <= t <= end, for every query time t.
C14_ContainedInDisjoint ==
    (/\ pc = "done" /\ last.op = "contained_in"
     /\ \A k \in 1..(QLen(param) - 1) : param.end_times[k] < param.begin_times[k + 1]) =>
        LET ks == C2_Covering(param, last.time)
        IN  /\ Len(last.ret) = Cardinality(ks)
            /\ {last.ret[i] + 1 : i \in 1..Len(last.ret)} = ks
            /\ \A i \in 1..(Len(last.ret) - 1) : last.ret[i] < last.ret[i + 1]

(* ============================ Composite_data =========================== *)
\* A Composite_data object is a record [data_waves, data_points, parameters]
\* of dicts; a dict is a function from the labels it holds.  The type tag of
\* an entity is only read when it is added, so it travels with the call.

DictSet(d, k, v) == [x \in DOMAIN d \cup {k} |-> IF x = k THEN v ELSE d[x]]
DictPop(d, k) == [x \in DOMAIN d \ {k} |-> d[x]]

\* begin_time of calculate_time_range after one more wave, lines 447-450
RangeBeginMin(cur, w) == IF cur = None THEN <<w.offset>> ELSE <<Min2(w.offset, cur[1])>>
RangeBegin(cur, w) == IF cur = None THEN <<w.offset>> ELSE <<Max2(w.offset, cur[1])>>

\* end_time of calculate_time_range after one more wave, lines 451-455
RangeEnd(cur, w) ==
    IF cur = None THEN <<w.offset + w.complete_length>>
    ELSE <<Min2(w.offset + w.complete_length, cur[1])>>

\* calculate_time_range: the loop over required_waves from position k on;
\* a label that is not held raises KeyError
RECURSIVE TimeRangeFrom(_, _, _, _, _)
TimeRangeFrom(r, required_waves, k, begin_time, end_time) ==
    IF k > Len(required_waves)
    THEN [kind |-> "ok", begin |-> begin_time, end |-> end_time]
    ELSE IF required_waves[k] \notin DOMAIN r.data_waves THEN [kind |-> "KeyError"]
    ELSE LET data_wave == r.data_waves[required_waves[k]]
         IN  TimeRangeFrom(r, required_waves, k + 1,
                           RangeBegin(begin_time, data_wave),
                           RangeEnd(end_time, data_wave))
CalculateTimeRange(r, required_waves) == TimeRangeFrom(r, required_waves, 1, None, None)

\* calculate_complete_time_span, first loop (lines 414-423)
RECURSIVE SpanWaves(_, _, _)
SpanWaves(d, keys, acc) ==
    IF keys = {} THEN acc
    ELSE LET key == CHOOSE k \in keys : TRUE
             w == d[key]
             b == IF acc.begin = None THEN <<w.offset>>
                  ELSE <<Min2(w.offset, acc.begin[1])>>
             e == IF acc.end = None THEN <<w.offset + w.complete_length>>
                  ELSE <<Max2(w.offset + w.complete_length, acc.end[1])>>
         IN  SpanWaves(d, keys \ {key}, [kind |-> "ok", begin |-> b, end |-> e])

\* second loop (lines 424-433): data_x[0] of an empty point set raises
RECURSIVE SpanPoints(_, _, _)
SpanPoints(d, keys, acc) ==
    IF keys = {} THEN acc
    ELSE LET key == CHOOSE k \in keys : TRUE
             p == d[key]
         IN  IF PLen(p) = 0 THEN [kind |-> "IndexError"]
             ELSE LET b == IF acc.begin = None THEN <<p.data_x[1]>>
                           ELSE <<Min2(p.data_x[1], acc.begin[1])>>
                      e == IF acc.end = None THEN <<p.data_x[PLen(p)]>>
                           ELSE <<Max2(p.data_x[PLen(p)], acc.end[1])>>
                  IN  SpanPoints(d, keys \ {key}, [kind |-> "ok", begin |-> b, end |-> e])

\* calculate_complete_time_span; line 434 reads `begin_time and (end_time is None)`
CalculateCompleteTimeSpan(r) ==
    LET a == SpanWaves(r.data_waves, DOMAIN r.data_waves,
                       [kind |-> "ok", begin |-> None, end |-> None])
        c == SpanPoints(r.data_points, DOMAIN r.data_points, a)
    IN  IF c.kind # "ok" THEN c
        ELSE IF c.begin # None /\ c.begin[1] # 0 /\ c.end = None
        THEN [c EXCEPT !.begin = <<0>>]
        ELSE c

\* the refusal of add_data_wave (line 465) and add_parameter (line 499)
LabelTakenAlways(d, dict_type, replace) == dict_type \in DOMAIN d
LabelTaken(d, dict_type, replace) == dict_type \in DOMAIN d /\ ~replace

\* add_data_wave / add_parameter on dict d: dict_type and type are None or
\* <<label>>; [d |-> the dict afterwards, kind]
AddReplaceable(d, entity, type, dict_type, replace) ==
    IF dict_type = None /\ type = None THEN [d |-> d, kind |-> "ValueError"]
    ELSE LET key == IF dict_type = None THEN type[1] ELSE dict_type[1]
         IN  IF LabelTaken(d, key, replace) THEN [d |-> d, kind |-> "ValueError"]
             ELSE [d |-> DictSet(d, key, entity), kind |-> "ok"]

AddDataWave(r, data_wave, type, dict_type, replace) ==
    LET out == AddReplaceable(r.data_waves, data_wave, type, dict_type, replace)
    IN  [r |-> [r EXCEPT !.data_waves = out.d], kind |-> out.kind]

AddParameter(r, parameter, type, dict_type, replace) ==
    LET out == AddReplaceable(r.parameters, parameter, type, dict_type, replace)
    IN  [r |-> [r EXCEPT !.parameters = out.d], kind |-> out.kind]

\* add_data_points; point sets carry a string type
AddDataPoints(r, data_points, type, dict_type, join) ==
    LET key == IF dict_type = None THEN type[1] ELSE dict_type[1]
    IN  IF key \in DOMAIN r.data_points
        THEN IF join
             THEN [r |-> [r EXCEPT !.data_points[key] = AddPoints(@, data_points, 0)],
                   kind |-> "ok"]
             ELSE [r |-> r, kind |-> "ValueError"]
        ELSE [r |-> [r EXCEPT !.data_points = DictSet(@, key, data_points)], kind |-> "ok"]

\* dict.pop(label) of delete_data_wave / delete_data_points / delete_parameter
DeleteFrom(d, dict_type) ==
    IF dict_type \in DOMAIN d THEN [d |-> DictPop(d, dict_type), kind |-> "ok"]
    ELSE [d |-> d, kind |-> "KeyError"]

(* --------------------- Composite_data: state machine ------------------- *)
MaxRegPts == 2

WaveLabels == {"ecg", "bp"}
PointLabels == {"r", "sbp"}
ParamLabels == {"hr"}

\* the entities handed to the registry
RegWaves ==
    {[data |-> <<0, 0>>, complete_length |-> 4, offset |-> 0],
     [data |-> <<0, 0>>, complete_length |-> 2, offset |-> 1],
     [data |-> <<0, 0>>, complete_length |-> 2, offset |-> -1]}
RegPoints ==
    {NewPoints(<<1>>, <<0>>), NewPoints(<<2>>, <<0>>), NewPoints(<<2, 0>>, <<0, 0>>)}
RegParams == {IdleParam, AddValue(IdleParam, 0, 1, 1)}
RegTimes == 0..2

\* None or <<label>>
Opt(labels) == {None} \cup {<<l>> : l \in labels}

\* non-empty lists of required waves, and the empty list
Required ==
    {<<>>} \cup {<<a>> : a \in WaveLabels} \cup {<<a, b>> : a \in WaveLabels, b \in WaveLabels}

RInit ==
    /\ reg = IdleReg
    /\ pc = "idle"
    /\ rs = NoFrame
    /\ pts = [data_x |-> <<0>>, data_y |-> <<0>>]
    /\ wave = IdleWave
    /\ param = IdleParam
    /\ last = NoCall

ROthers == UNCHANGED <<pts, rs, wave, param>>

RAddDataWave ==
    /\ pc = "idle"
    /\ \E w \in RegWaves, type \in Opt({"ecg"}), dict_type \in Opt(WaveLabels),
          replace \in BOOLEAN :
         LET out == AddDataWave(reg, w, type, dict_type, replace)
         IN  /\ reg' = out.r
             /\ last' = [op |-> "add_data_wave", entity |-> w, type |-> type,
                         dict_type |-> dict_type, flag |-> replace,
                         kind |-> out.kind, before |-> reg]
    /\ pc' = "done"
    /\ ROthers

RAddParameter ==
    /\ pc = "idle"
    /\ \E q \in RegParams, type \in Opt(ParamLabels), dict_type \in Opt(ParamLabels),
          replace \in BOOLEAN :
         LET out == AddParameter(reg, q, type, dict_type, replace)
         IN  /\ reg' = out.r
             /\ last' = [op |-> "add_parameter", entity |-> q, type |-> type,
                         dict_type |-> dict_type, flag |-> replace,
                         kind |-> out.kind, before |-> reg]
    /\ pc' = "done"
    /\ ROthers

RAddDataPoints ==
    /\ pc = "idle"
    /\ \E p \in RegPoints, type \in {<<"r">>}, dict_type \in Opt(PointLabels),
          join \in BOOLEAN :
         LET out == AddDataPoints(reg, p, type, dict_type, join)
             key == IF dict_type = None THEN type[1] ELSE dict_type[1]
         IN  /\ PLen(out.r.data_points[key]) <= MaxRegPts
             /\ reg' = out.r
             /\ last' = [op |-> "add_data_points", entity |-> p, type |-> type,
                         dict_type |-> dict_type, flag |-> join,
                         kind |-> out.kind, before |-> reg]
    /\ pc' = "done"
    /\ ROthers

RDelete ==
    /\ pc = "idle"
    /\ \/ \E l \in WaveLabels :
            LET out == DeleteFrom(reg.data_waves, l)
            IN  /\ reg' = [reg EXCEPT !.data_waves = out.d]
                /\ last' = [op |-> "delete_data_wave", dict_type |-> <<l>>,
                            flag |-> FALSE, kind |-> out.kind, before |-> reg]
       \/ \E l \in PointLabels :
            LET out == DeleteFrom(reg.data_points, l)
            IN  /\ reg' = [reg EXCEPT !.data_points = out.d]
                /\ last' = [op |-> "delete_data_points", dict_type |-> <<l>>,
                            flag |-> FALSE, kind |-> out.kind, before |-> reg]
       \/ \E l \in ParamLabels :
            LET out == DeleteFrom(reg.parameters, l)
            IN  /\ reg' = [reg EXCEPT !.parameters = out.d]
                /\ last' = [op |-> "delete_parameter", dict_type |-> <<l>>,
                            flag |-> FALSE, kind |-> out.kind, before |-> reg]
    /\ pc' = "done"
    /\ ROthers

\* a caller changes a point set the registry holds, through its reference
RPointsAddPoint ==
    /\ pc = "idle"
    /\ \E l \in DOMAIN reg.data_points, x \in RegTimes :
         /\ PLen(reg.data_points[l]) < MaxRegPts
         /\ reg' = [reg EXCEPT !.data_points[l] = AddPoint(@, x, 0)]
         /\ last' = [op |-> "points.add_point", dict_type |-> <<l>>, x |-> x]
    /\ pc' = "done"
    /\ ROthers

RPointsDeletePoint ==
    /\ pc = "idle"
    /\ \E l \in DOMAIN reg.data_points, x \in RegTimes :
         /\ PLen(reg.data_points[l]) > 0
         /\ reg' = [reg EXCEPT !.data_points[l] = DeletePoint(@, x, None)]
         /\ last' = [op |-> "points.delete_point", dict_type |-> <<l>>, x |-> x]
    /\ pc' = "done"
    /\ ROthers

RCompleteTimeSpan ==
    /\ pc = "idle"
    /\ last' = [op |-> "calculate_complete_time_span",
                ret |-> CalculateCompleteTimeSpan(reg)]
    /\ pc' = "done"
    /\ UNCHANGED reg
    /\ ROthers

RTimeRange ==
    /\ pc = "idle"
    /\ \E required_waves \in Required :
         last' = [op |-> "calculate_time_range", required_waves |-> required_waves,
                  ret |-> CalculateTimeRange(reg, required_waves)]
    /\ pc' = "done"
    /\ UNCHANGED reg
    /\ ROthers

RReturn ==
    /\ pc = "done"
    /\ pc' = "idle"
    /\ last' = NoCall
    /\ UNCHANGED reg
    /\ ROthers

RNext ==
    \/ RAddDataWave
    \/ RAddParameter
    \/ RAddDataPoints
    \/ RDelete
    \/ RPointsAddPoint
    \/ RPointsDeletePoint
    \/ RCompleteTimeSpan
    \/ RTimeRange
    \/ RReturn

SpecReg == RInit /\ [][RNext]_vars

(* ----------------------- Composite_data: claims ------------------------ *)

SetMin(S) == CHOOSE m \in S : \A x \in S : m <= x
SetMax(S) == CHOOSE m \in S : \A x \in S : m >= x
Labels(seq) == {seq[k] : k \in 1..Len(seq)}

\* C5: for a non-empty list of required labels, calculate_time_range
\* returns (max of the required waves' offset, min of their offset +
\* complete_length) when all of them are held, and raises when one is not.
C5_CommonRange ==
    (pc = "done" /\ last.op = "calculate_time_range" /\ last.required_waves # <<>>) =>
        LET req == Labels(last.required_waves)
        IN  IF req \subseteq DOMAIN reg.data_waves
            THEN /\ last.ret.kind = "ok"
                 /\ last.ret.begin = <<SetMax({reg.data_waves[l].offset : l \in req})>>
                 /\ last.ret.end =
                      <<SetMin({reg.data_waves[l].offset + reg.data_waves[l].complete_length :
                                  l \in req})>>
            ELSE last.ret.kind # "ok"

\* two required waves, one lying inside the other as (0, 100) and (10, 80):
\* the range is the inner one
C5_Witness ==
    /\ pc = "done"
    /\ last.op = "calculate_time_range"
    /\ last.ret.kind = "ok"
    /\ Len(last.required_waves) = 2
    /\ LET a == reg.data_waves[last.required_waves[1]]
           b == reg.data_waves[last.required_waves[2]]
       IN  /\ a.offset < b.offset
           /\ b.offset + b.complete_length < a.offset + a.complete_length
           /\ last.ret.begin = <<b.offset>>
           /\ last.ret.end = <<b.offset + b.complete_length>>

\* the begins and ends the claim takes the extremes of
C6_Begins(r) ==
    {r.data_waves[l].offset : l \in DOMAIN r.data_waves}
    \cup {r.data_points[l].data_x[1] :
            l \in {k \in DOMAIN r.data_points : PLen(r.data_points[k]) > 0}}
C6_Ends(r) ==
    {r.data_waves[l].offset + r.data_waves[l].complete_length : l \in DOMAIN r.data_waves}
    \cup {r.data_points[l].data_x[PLen(r.data_points[l])] :
            l \in {k \in DOMAIN r.data_points : PLen(r.data_points[k]) > 0}}

\* C6: in every reachable registry, calculate_complete_time_span returns
\* the minimum of the waves' offsets and the point sets' first times and the
\* maximum of the waves' ends and the point sets' last times, and
\* (None, None) when no wave and no point set is held.
C6_OverallSpan ==
    (pc = "done" /\ last.op = "calculate_complete_time_span") =>
        /\ last.ret.kind = "ok"
        /\ IF DOMAIN reg.data_waves = {} /\ DOMAIN reg.data_points = {}
           THEN last.ret.begin = None /\ last.ret.end = None
           ELSE /\ C6_Begins(reg) # {} => last.ret.begin = <<SetMin(C6_Begins(reg))>>
                /\ C6_Ends(reg) # {} => last.ret.end = <<SetMax(C6_Ends(reg))>>

\* the label an add call files the entity under
C7_Key(call) == IF call.dict_type = None THEN call.type[1] ELSE call.dict_type[1]

C7_Dict(r, op) == IF op = "add_data_wave" THEN r.data_waves ELSE r.parameters

\* C7: add_data_wave / add_parameter under a label its dict already holds:
\* without replace it raises and leaves the three dicts as they were; with
\* replace it succeeds, the label then maps to the new entity and nothing else
\* changes.  And no add or delete call made without its override flag
\* changes the entity a label maps to.
C7_DuplicateLabel ==
    /\ (/\ pc = "done"
        /\ last.op \in {"add_data_wave", "add_parameter"}
        /\ ~(last.dict_type = None /\ last.type = None)
        /\ C7_Key(last) \in DOMAIN C7_Dict(last.before, last.op)) =>
           IF ~last.flag
           THEN last.kind = "ValueError" /\ reg = last.before
           ELSE LET d == C7_Dict(reg, last.op)
                    old == C7_Dict(last.before, last.op)
                IN  /\ last.kind = "ok"
                    /\ DOMAIN d = DOMAIN old
                    /\ d[C7_Key(last)] = last.entity
                    /\ \A l \in DOMAIN old \ {C7_Key(last)} : d[l] = old[l]
                    /\ IF last.op = "add_data_wave"
                       THEN reg.parameters = last.before.parameters
                       ELSE reg.data_waves = last.before.data_waves
                    /\ reg.data_points = last.before.data_points
    /\ (/\ pc = "done"
        /\ last.op \in {"add_data_wave", "add_parameter", "add_data_points",
                        "delete_data_wave", "delete_data_points", "delete_parameter"}
        /\ ~last.flag) =>
           /\ \A l \in DOMAIN reg.data_waves \cap DOMAIN last.before.data_waves :
                reg.data_waves[l] = last.before.data_waves[l]
           /\ \A l \in DOMAIN reg.data_points \cap DOMAIN last.before.data_points :
                reg.data_points[l] = last.before.data_points[l]
           /\ \A l \in DOMAIN reg.parameters \cap DOMAIN last.before.parameters :
                reg.parameters[l] = last.before.parameters[l]

\* a wave offered under a label that holds a different wave was refused,
\* with point sets and parameters held as well
C7_Witness ==
    /\ pc = "done"
    /\ last.op = "add_data_wave"
    /\ ~last.flag
    /\ last.kind = "ValueError"
    /\ last.dict_type # None
    /\ last.dict_type[1] \in DOMAIN last.before.data_waves
    /\ last.before.data_waves[last.dict_type[1]] # last.entity
    /\ DOMAIN reg.parameters # {}
    /\ DOMAIN reg.data_points # {}

====
